---- MODULE Spec2Model ----
(***************************************************************************)
(* Lap-boundary resolution, multi-rate index mapping and channel alignment *)
(* of UltimateDuckGarage (src/src/lib/lapsService.ts and the /api/telemetry *)
(* and /api/laps route handlers).                                          *)
(*                                                                         *)
(* Numbers are JavaScript numbers.  A finite number is kept exactly; the   *)
(* non-finite values NaN, +Infinity, -Infinity and the values null and     *)
(* undefined are kept as tagged records, and the arithmetic follows        *)
(* IEEE-754 on them.  A time is a whole number of ticks, TicksPerSec ticks *)
(* to the second; sample indices and lengths are plain integers.           *)
(***************************************************************************)
EXTENDS Integers, Sequences, FiniteSets, TLC

VARIABLES
    lapTimeRows,     \* rows of lmu_db."Lap Time":     <<lapEndTime, lapTime>>
    s1Rows,          \* rows of lmu_db."Last Sector1": <<lapIndex, cumulativeSector>>
    s2Rows,          \* rows of lmu_db."Last Sector2": <<lapIndex, cumulativeSector>>
    targetLapIndex,  \* the lapIndex form field after Number(), or null
    lapSelection,    \* what selectLap returned or threw
    lapsResult,      \* what buildLapSummaries returned
    hz,              \* the channel rate table handed to the mapper and the aligner
    ranges,          \* what computeIndexRanges returned
    slices,          \* what loadTelemetrySlices returned
    sampleStep,      \* the stride of buildTelemetrySeries
    i,               \* the loop counter of buildTelemetrySeries
    data,            \* the points buildTelemetrySeries has pushed
    pc,              \* where the request is
    response,        \* the JSON response of the route handler
    now,             \* Date.now(), in milliseconds
    disk,            \* the files of .tmp: pairs <<path, request that wrote it>>
    reqs,            \* the requests in flight: each one's position and locals
    page             \* the state of the page component Home

vars == <<lapTimeRows, s1Rows, s2Rows, targetLapIndex, lapSelection, lapsResult,
          hz, ranges, slices, sampleStep, i, data, pc, response, now, disk, reqs,
          page>>

\* the variables of one request's pipeline
pipelineVars == <<lapTimeRows, s1Rows, s2Rows, targetLapIndex, lapSelection,
                  lapsResult, hz, ranges, slices, sampleStep, i, data, pc, response>>

\* the variables the concurrent requests share
serverVars == <<now, disk, reqs>>

(***************************************************************************)
(* Bounds of the model.                                                    *)
(***************************************************************************)
MaxLaps == 2
TicksPerSec == 4
MaxLen == 3
MaxStride == 2

(***************************************************************************)
(* JavaScript values.                                                      *)
(***************************************************************************)
Fin(n) == [k |-> "fin", v |-> n]
NaN == [k |-> "nan", v |-> 0]
PInf == [k |-> "inf", v |-> 1]
NInf == [k |-> "inf", v |-> -1]
Null == [k |-> "null", v |-> 0]
Undefined == [k |-> "undef", v |-> 0]

Sec(n) == Fin(n * TicksPerSec)

IsFinite(a) == a.k = "fin"

\* x ?? d
Coalesce(x, d) == IF x.k \in {"null", "undef"} THEN d ELSE x

\* Number(x)
Number(x) ==
    CASE x.k = "null" -> Fin(0)
      [] x.k = "undef" -> NaN
      [] OTHER -> x

NumNeg(a) == IF a.k = "nan" THEN NaN ELSE [k |-> a.k, v |-> 0 - a.v]

\* a + b
NumAdd(a, b) ==
    CASE a.k = "nan" \/ b.k = "nan" -> NaN
      [] a.k = "fin" /\ b.k = "fin" -> Fin(a.v + b.v)
      [] a.k = "inf" /\ b.k = "fin" -> a
      [] a.k = "fin" /\ b.k = "inf" -> b
      [] OTHER -> IF a.v = b.v THEN a ELSE NaN

\* a - b
NumSub(a, b) == NumAdd(a, NumNeg(b))

\* a < b
NumLt(a, b) ==
    /\ a.k # "nan"
    /\ b.k # "nan"
    /\ \/ a.k = "fin" /\ b.k = "fin" /\ a.v < b.v
       \/ a = NInf /\ b # NInf
       \/ b = PInf /\ a # PInf

\* a > b
NumGt(a, b) == NumLt(b, a)

\* a <= b
NumLe(a, b) == a.k # "nan" /\ b.k # "nan" /\ ~NumLt(b, a)

\* Math.max(a, b)
MathMax(a, b) ==
    IF a.k = "nan" \/ b.k = "nan" THEN NaN
    ELSE IF NumLt(a, b) THEN b ELSE a

\* Math.floor(t * h) for a time t in ticks and a rate h > 0 in Hz
FloorTimesHz(t, h) == IF t.k = "fin" THEN Fin((t.v * h) \div TicksPerSec) ELSE t

(***************************************************************************)
(* lapsService.ts: buildLapSummaries.                                      *)
(***************************************************************************)
\* rows[idx]?.[1]
Col1At(rows, idx) ==
    IF idx >= 0 /\ idx < Len(rows) THEN rows[idx + 1][2] ELSE Undefined

\* s1 = s1Cum; s2 = s2Cum - s1Cum; s3 = lapTime - s1 - s2
SummarySectors(lapTime, s1Cum, s2Cum) ==
    LET s1 == s1Cum
        s2 == NumSub(s2Cum, s1Cum)
        s3 == NumSub(NumSub(lapTime, s1), s2)
    IN [s1 |-> s1, s2 |-> s2, s3 |-> s3]

\* PickBest without the test s > 0
PickBestAnySign(s, best) == IF NumLt(s, best) THEN s ELSE best

\* if (s > 0 && s < best) best = s
PickBest(s, best) == IF NumGt(s, Fin(0)) /\ NumLt(s, best) THEN s ELSE best

RECURSIVE SummariesFrom(_, _, _, _, _)
SummariesFrom(ltRows, r1, r2, idx, acc) ==
    IF idx >= Len(ltRows) THEN acc
    ELSE
      LET lapTime == Number(ltRows[idx + 1][2]) IN
      IF NumLe(lapTime, Fin(0)) \/ ~IsFinite(lapTime)
      THEN SummariesFrom(ltRows, r1, r2, idx + 1, acc)
      ELSE
        LET s1Cum == Number(Coalesce(Col1At(r1, idx), Fin(0)))
            s2Cum == Number(Coalesce(Col1At(r2, idx), Fin(0)))
            sectors == SummarySectors(lapTime, s1Cum, s2Cum)
            s1 == sectors.s1
            s2 == sectors.s2
            s3 == sectors.s3
            better == NumLt(lapTime, acc.bestLapTime)
        IN SummariesFrom(ltRows, r1, r2, idx + 1,
             [laps |-> Append(acc.laps,
                         [lapIndex |-> idx, lapTime |-> lapTime,
                          sectors |-> sectors]),
              bestLapIndex |-> IF better THEN idx ELSE acc.bestLapIndex,
              bestLapTime |-> IF better THEN lapTime ELSE acc.bestLapTime,
              bestSectors |-> [s1 |-> PickBest(s1, acc.bestSectors.s1),
                               s2 |-> PickBest(s2, acc.bestSectors.s2),
                               s3 |-> PickBest(s3, acc.bestSectors.s3)]])

buildLapSummaries(ltRows, r1, r2) ==
    LET res == SummariesFrom(ltRows, r1, r2, 0,
                 [laps |-> <<>>, bestLapIndex |-> -1, bestLapTime |-> PInf,
                  bestSectors |-> [s1 |-> PInf, s2 |-> PInf, s3 |-> PInf]])
    IN [laps |-> res.laps, bestLapIndex |-> res.bestLapIndex,
        bestSectors |-> res.bestSectors]

(***************************************************************************)
(* lapsService.ts: selectLap.                                              *)
(***************************************************************************)
\* ScanFastest with <= for <: the last of the tied laps wins
RECURSIVE ScanFastestLastWins(_, _, _, _)
ScanFastestLastWins(ltRows, idx, bestLapTime, lapIndex) ==
    IF idx >= Len(ltRows) THEN lapIndex
    ELSE
      LET lt == Number(ltRows[idx + 1][2]) IN
      IF NumGt(lt, Fin(0)) /\ NumLe(lt, bestLapTime) /\ IsFinite(lt)
      THEN ScanFastestLastWins(ltRows, idx + 1, lt, idx)
      ELSE ScanFastestLastWins(ltRows, idx + 1, bestLapTime, lapIndex)

\* ScanFastest without the test lt > 0
RECURSIVE ScanFastestAnySign(_, _, _, _)
ScanFastestAnySign(ltRows, idx, bestLapTime, lapIndex) ==
    IF idx >= Len(ltRows) THEN lapIndex
    ELSE
      LET lt == Number(ltRows[idx + 1][2]) IN
      IF NumLt(lt, bestLapTime)
      THEN ScanFastestAnySign(ltRows, idx + 1, lt, idx)
      ELSE ScanFastestAnySign(ltRows, idx + 1, bestLapTime, lapIndex)

\* the scan for the fastest lap: the index the loop leaves in lapIndex
RECURSIVE ScanFastest(_, _, _, _)
ScanFastest(ltRows, idx, bestLapTime, lapIndex) ==
    IF idx >= Len(ltRows) THEN lapIndex
    ELSE
      LET lt == Number(ltRows[idx + 1][2]) IN
      IF NumGt(lt, Fin(0)) /\ NumLt(lt, bestLapTime)
      THEN ScanFastest(ltRows, idx + 1, lt, idx)
      ELSE ScanFastest(ltRows, idx + 1, bestLapTime, lapIndex)

\* InitialLapIndex reading the explicit index as counted from 1
InitialLapIndexOneBased(target) ==
    IF target.k \notin {"null", "undef"} /\ IsFinite(target) THEN target.v - 1 ELSE -1

\* targetLapIndex != null && Number.isFinite(targetLapIndex) ? targetLapIndex : -1
InitialLapIndex(target) ==
    IF target.k \notin {"null", "undef"} /\ IsFinite(target) THEN target.v ELSE -1

\* ResolvedLapIndex with the validity filter applied to an explicit index too
ResolvedLapIndexFiltered(ltRows, target) ==
    LET lapIndex == InitialLapIndex(target) IN
    IF lapIndex < 0 \/ lapIndex >= Len(ltRows)
       \/ ~NumGt(Number(ltRows[lapIndex + 1][2]), Fin(0))
    THEN ScanFastest(ltRows, 0, PInf, lapIndex)
    ELSE lapIndex

\* ResolvedLapIndex falling back to lap 0 when the scan finds no lap
ResolvedLapIndexDefaultZero(ltRows, target) ==
    LET lapIndex == InitialLapIndex(target)
        found == IF lapIndex < 0 \/ lapIndex >= Len(ltRows)
                 THEN ScanFastest(ltRows, 0, PInf, lapIndex)
                 ELSE lapIndex
    IN IF found < 0 THEN 0 ELSE found

\* the value of lapIndex after the scan
ResolvedLapIndex(ltRows, target) ==
    LET lapIndex == InitialLapIndex(target) IN
    IF lapIndex < 0 \/ lapIndex >= Len(ltRows)
    THEN ScanFastest(ltRows, 0, PInf, lapIndex)
    ELSE lapIndex

NoSectors == [s1 |-> Undefined, s2 |-> Undefined, s3 |-> Undefined]

\* no lap record: selectLap has not returned one
NoSelection ==
    [ok |-> FALSE, error |-> "", lapIndex |-> -1,
     lapStartTime |-> Undefined, lapEndTime |-> Undefined,
     lapDuration |-> Undefined, sectors |-> NoSectors]

\* a call of selectLap that ended in a throw
Thrown(msg) == [NoSelection EXCEPT !.error = msg]

\* LapSectors taking the cumulative second split for the second sector
LapSectorsCumulative(lapTime, s1Cum, s2Cum) ==
    LET s1 == s1Cum
        s2 == s2Cum
        s3 == NumSub(NumSub(lapTime, s1), s2Cum)
    IN [s1 |-> s1, s2 |-> s2, s3 |-> s3]

\* s1 = s1Cum; s2 = s2Cum - s1Cum; s3 = lapTime - s1 - s2
LapSectors(lapTime, s1Cum, s2Cum) ==
    LET s1 == s1Cum
        s2 == NumSub(s2Cum, s1Cum)
        s3 == NumSub(NumSub(lapTime, s1), s2)
    IN [s1 |-> s1, s2 |-> s2, s3 |-> s3]

\* LapStartTime without the lap's own duration
LapStartTimeFromEnd(lapEnd, lapDuration, firstLapStart) == NumSub(lapEnd, firstLapStart)

\* lapStartTime = lapEnd - lapDuration - firstLapStart
LapStartTime(lapEnd, lapDuration, firstLapStart) ==
    NumSub(NumSub(lapEnd, lapDuration), firstLapStart)

\* the number subtracted from every lap's raw start: Number(lapTimeRows[0][0])
FirstLapStart(ltRows) == Number(ltRows[1][1])

selectLap(ltRows, r1, r2, target) ==
    LET lapIndex == ResolvedLapIndex(ltRows, target) IN
    IF lapIndex < 0 THEN Thrown("No valid lap found.")
    ELSE IF lapIndex >= Len(ltRows) \/ lapIndex >= Len(r1) \/ lapIndex >= Len(r2)
    THEN Thrown("TypeError")
    ELSE
      LET lapEnd == Number(ltRows[lapIndex + 1][1])
          lapTime == Number(ltRows[lapIndex + 1][2])
          s1Cum == Number(r1[lapIndex + 1][2])
          s2Cum == Number(r2[lapIndex + 1][2])
          firstLapStart == FirstLapStart(ltRows)
          lapDuration == lapTime
          lapStartTime == LapStartTime(lapEnd, lapDuration, firstLapStart)
          lapEndTime == NumAdd(lapStartTime, lapDuration)
      IN [ok |-> TRUE, error |-> "", lapIndex |-> lapIndex,
          lapStartTime |-> lapStartTime, lapEndTime |-> lapEndTime,
          lapDuration |-> lapDuration,
          sectors |-> LapSectors(lapTime, s1Cum, s2Cum)]

(***************************************************************************)
(* lapsService.ts: computeIndexRanges.                                     *)
(***************************************************************************)
StartIdx(lapStartTime, h) == MathMax(Fin(0), FloorTimesHz(lapStartTime, h))

\* EndIdx without the floor of startIdx + 1
EndIdxUnclamped(startIdx, lapEndTime, h) == FloorTimesHz(lapEndTime, h)

EndIdx(startIdx, lapEndTime, h) ==
    MathMax(NumAdd(startIdx, Fin(1)), FloorTimesHz(lapEndTime, h))

IndexRange(lapStartTime, lapEndTime, h) ==
    LET startIdx == StartIdx(lapStartTime, h)
    IN [start |-> startIdx, end |-> EndIdx(startIdx, lapEndTime, h)]

Channels == {"speed", "dist", "input", "gps", "rpm", "steering"}

computeIndexRanges(lapStartTime, lapEndTime, rates) ==
    [speed |-> IndexRange(lapStartTime, lapEndTime, rates.speed),
     dist |-> IndexRange(lapStartTime, lapEndTime, rates.dist),
     input |-> IndexRange(lapStartTime, lapEndTime, rates.input),
     gps |-> IndexRange(lapStartTime, lapEndTime, rates.gps),
     rpm |-> IndexRange(lapStartTime, lapEndTime, rates.rpm),
     steering |-> IndexRange(lapStartTime, lapEndTime, rates.steering)]

\* the rate table of the /api/telemetry handler
RouteHz == [speed |-> 100, dist |-> 10, input |-> 50, gps |-> 10,
            rpm |-> 100, steering |-> 100]

(***************************************************************************)
(* lapsService.ts: buildTelemetrySeries.                                   *)
(***************************************************************************)
\* rows[idx]?.[0]
Col0At(rows, idx) ==
    IF idx >= 0 /\ idx < Len(rows) THEN rows[idx + 1][1] ELSE Undefined

\* Math.min(a, b) on integers
MathMin(a, b) == IF a < b THEN a ELSE b

\* TRel counting the samples from 1
TRelOneBased(idx, rates) == [num |-> idx + 1, den |-> rates.speed]

\* tRel = idx / hz.speed, kept as a fraction of a second
TRel(idx, rates) == [num |-> idx, den |-> rates.speed]

\* RoundTimesHz with Math.ceil for Math.round
CeilTimesHz(tRel, h) == (tRel.num * h + tRel.den - 1) \div tRel.den

\* Math.round(tRel * h): the nearest integer, a half rounding up
RoundTimesHz(tRel, h) == (2 * tRel.num * h + tRel.den) \div (2 * tRel.den)

\* a * n for a whole number n > 0
NumTimes(a, n) == IF a.k = "fin" THEN Fin(a.v * n) ELSE a

\* ValueOrZero without the ?? 0
ValueOrZeroNoFallback(rows, idx) == Number(Col0At(rows, idx))

\* Number(rows[idx]?.[0] ?? 0)
ValueOrZero(rows, idx) == Number(Coalesce(Col0At(rows, idx), Fin(0)))

\* GpsValue without the test of rows.length
GpsValueUnguarded(rows, idx) == Number(Coalesce(Col0At(rows, idx), Null))

\* rows.length ? Number(rows[idx]?.[0] ?? null) : null
GpsValue(rows, idx) ==
    IF Len(rows) # 0 THEN Number(Coalesce(Col0At(rows, idx), Null)) ELSE Null

\* DistIdx without the clamp to the last row of the slice
DistIdxUnclamped(sl, rates, idx) == RoundTimesHz(TRel(idx, rates), rates.dist)

\* DistIdx counted back from the last row of the slice
DistIdxMirrored(sl, rates, idx) ==
    (Len(sl.distRows) - 1)
      - MathMin(Len(sl.distRows) - 1, RoundTimesHz(TRel(idx, rates), rates.dist))

\* distIdx = Math.min(distRows.length - 1, Math.round(tRel * hz.dist))
DistIdx(sl, rates, idx) ==
    MathMin(Len(sl.distRows) - 1, RoundTimesHz(TRel(idx, rates), rates.dist))

\* inputIdx = Math.min(throttleRows.length - 1, Math.round(tRel * hz.input))
InputIdx(sl, rates, idx) ==
    MathMin(Len(sl.throttleRows) - 1, RoundTimesHz(TRel(idx, rates), rates.input))

\* gpsIdx = Math.min(latRows.length - 1, Math.round(tRel * hz.gps))
GpsIdx(sl, rates, idx) ==
    MathMin(Len(sl.latRows) - 1, RoundTimesHz(TRel(idx, rates), rates.gps))

\* one pass of the loop body: the point pushed at reference index idx
TelemetryPoint(lapIndex, sl, rates, idx) ==
    LET tRel == TRel(idx, rates)
        distIdx == DistIdx(sl, rates, idx)
        inputIdx == InputIdx(sl, rates, idx)
        gpsIdx == GpsIdx(sl, rates, idx)
        rawDist == ValueOrZero(sl.distRows, distIdx)
        distanceFromZero == rawDist
        lat == GpsValue(sl.latRows, gpsIdx)
        lon == GpsValue(sl.lonRows, gpsIdx)
        engineRpm == ValueOrZero(sl.rpmRows, idx)
        steeringAngle == NumTimes(ValueOrZero(sl.steeringRows, idx), 100)
    IN [index |-> idx,
        time |-> tRel,
        distance |-> distanceFromZero,
        speed |-> ValueOrZero(sl.speedRows, idx),
        throttle |-> ValueOrZero(sl.throttleRows, inputIdx),
        brake |-> ValueOrZero(sl.brakeRows, inputIdx),
        lat |-> lat,
        lon |-> lon,
        lapIndex |-> lapIndex,
        engineRpm |-> engineRpm,
        steeringAngle |-> steeringAngle]

\* LoopContinues stopping one sample before the end
LoopContinuesBelowLast(idx, len) == idx + 1 < len

\* LoopContinues with <= for <
LoopContinuesInclusive(idx, len) == idx <= len

\* the loop test: i < len
LoopContinues(idx, len) == idx < len

\* NextIndex stepping by one whatever the stride
NextIndexByOne(idx, step) == idx + 1

\* the loop increment: i += sampleStep
NextIndex(idx, step) == idx + step

\* the stride the /api/telemetry handler passes
RouteSampleStep == 10

\* the values i takes in the loop: 0, sampleStep, 2 * sampleStep, ... below len
LoopIndexes(len, step) == {idx \in 0..(len - 1) : idx % step = 0}

\* the whole loop: one point pushed per value of i, in increasing order of i
buildTelemetrySeries(lapIndex, sl, rates, step) ==
    [n \in 1..Cardinality(LoopIndexes(Len(sl.speedRows), step)) |->
        TelemetryPoint(lapIndex, sl, rates, (n - 1) * step)]

\* no response yet
NoResponse == [status |-> 0, success |-> FALSE, error |-> "", data |-> <<>>,
               laps |-> <<>>]

\* no request in flight
NoRequests == <<>>

\* the page as first rendered: no file, no laps, nothing analysed or shown
NoPage ==
    [currentFile |-> 0, laps |-> <<>>, telemetryData |-> {}, visibleLaps |-> <<>>,
     loading |-> FALSE, fetches |-> <<>>, last |-> "render"]

NoRanges == [c \in Channels |-> [start |-> Undefined, end |-> Undefined]]

NoLapsResult == [laps |-> <<>>, bestLapIndex |-> -1, bestSectors |-> NoSectors]

NoSlices ==
    [speedRows |-> <<>>, distRows |-> <<>>, throttleRows |-> <<>>, brakeRows |-> <<>>,
     latRows |-> <<>>, lonRows |-> <<>>, rpmRows |-> <<>>, steeringRows |-> <<>>]

(***************************************************************************)
(* The timing tables a session file can hold.  The three tables are        *)
(* parallel: one row per lap in each.                                      *)
(***************************************************************************)
EndTimes == {Fin(3), Fin(6)}
Durations == {Fin(-1), Fin(0), Fin(1), Fin(2), PInf, NaN}
SectorPairs == {<<Fin(0), Fin(1)>>, <<Fin(1), Fin(2)>>, <<Fin(1), Fin(1)>>}

\* rows (10,10), (25,12), (40,9) in seconds
ScenarioA ==
    [lt |-> <<(<<Sec(10), Sec(10)>>), (<<Sec(25), Sec(12)>>), (<<Sec(40), Sec(9)>>)>>,
     c1 |-> <<Sec(3), Sec(4), Sec(3)>>,
     c2 |-> <<Sec(6), Sec(8), Sec(6)>>]

\* lap 0 with cumulative sectors 20 and 35 and duration 50, in seconds
ScenarioC ==
    [lt |-> <<(<<Sec(50), Sec(50)>>), (<<Sec(90), Sec(40)>>)>>,
     c1 |-> <<Sec(20), Sec(10)>>,
     c2 |-> <<Sec(35), Sec(30)>>]

LapRows == EndTimes \X Durations \X SectorPairs

\* a session of n laps: lap j has the row rows[j] = <<endTime, duration, <<c1, c2>>>>
TablesOf(rows) ==
    [lt |-> [j \in 1..Len(rows) |-> <<rows[j][1], rows[j][2]>>],
     c1 |-> [j \in 1..Len(rows) |-> rows[j][3][1]],
     c2 |-> [j \in 1..Len(rows) |-> rows[j][3][2]]]

Sessions ==
    {TablesOf(rows) : rows \in UNION {[1..n -> LapRows] : n \in 1..MaxLaps}}
      \cup {ScenarioA, ScenarioC}

SectorRows(cum) == [j \in 1..Len(cum) |-> <<Fin(j - 1), cum[j]>>]

\* the lapIndex form field: absent, not a number, or an integer
TargetLapIndexes == {Null, NaN} \cup {Fin(n) : n \in -1..MaxLaps}

InitLap ==
    /\ \E s \in Sessions :
         /\ lapTimeRows = s.lt
         /\ s1Rows = SectorRows(s.c1)
         /\ s2Rows = SectorRows(s.c2)
    /\ targetLapIndex \in TargetLapIndexes
    /\ lapSelection = NoSelection
    /\ lapsResult = NoLapsResult
    /\ hz = RouteHz
    /\ ranges = NoRanges
    /\ slices = NoSlices
    /\ sampleStep = 10
    /\ i = 0
    /\ data = <<>>
    /\ pc = "loaded"
    /\ response = NoResponse
    /\ now = 0
    /\ disk = {}
    /\ reqs = NoRequests
    /\ page = NoPage

(***************************************************************************)
(* The steps of a request once the timing tables are loaded.               *)
(***************************************************************************)
\* /api/telemetry: selectLap, and the catch block if it throws
SelectLap ==
    /\ pc = "loaded"
    /\ lapSelection' = selectLap(lapTimeRows, s1Rows, s2Rows, targetLapIndex)
    /\ pc' = IF lapSelection'.ok THEN "selected" ELSE "failed"
    /\ UNCHANGED <<lapTimeRows, s1Rows, s2Rows, targetLapIndex, lapsResult, hz,
                   ranges, slices, sampleStep, i, data>>
    /\ UNCHANGED <<response, now, disk, reqs>>
    /\ UNCHANGED page

\* /api/telemetry: computeIndexRanges on the selected lap's window
ComputeIndexRanges ==
    /\ pc = "selected"
    /\ ranges' = computeIndexRanges(lapSelection.lapStartTime,
                                    lapSelection.lapEndTime, hz)
    /\ pc' = "ranged"
    /\ UNCHANGED <<lapTimeRows, s1Rows, s2Rows, targetLapIndex, lapSelection,
                   lapsResult, hz, slices, sampleStep, i, data>>
    /\ UNCHANGED <<response, now, disk, reqs>>
    /\ UNCHANGED page

\* /api/laps: buildLapSummaries
BuildLapSummaries ==
    /\ pc = "loaded"
    /\ lapsResult' = buildLapSummaries(lapTimeRows, s1Rows, s2Rows)
    /\ pc' = "summarised"
    /\ UNCHANGED <<lapTimeRows, s1Rows, s2Rows, targetLapIndex, lapSelection, hz,
                   ranges, slices, sampleStep, i, data>>
    /\ UNCHANGED <<response, now, disk, reqs>>
    /\ UNCHANGED page

NextLap == SelectLap \/ ComputeIndexRanges \/ BuildLapSummaries

SpecLap == InitLap /\ [][NextLap]_vars

(***************************************************************************)
(* Properties of lap resolution (SpecLap).                                 *)
(***************************************************************************)
\* selectLap has returned or thrown
SelectLapRan == pc \in {"selected", "ranged", "failed"}

EndOf(j) == lapTimeRows[j + 1][1]
DurOf(j) == lapTimeRows[j + 1][2]
LapCount == Len(lapTimeRows)

\* lap j has a finite, strictly positive duration
ValidLap(j) == DurOf(j).k = "fin" /\ DurOf(j).v > 0

\* every lap has a finite end time and a finite, strictly positive duration
AllLapsValid == \A j \in 0..(LapCount - 1) : IsFinite(EndOf(j)) /\ ValidLap(j)

\* C1: for any timing table and selected lap i, selectLap returns
\* lapStartTime = endTime[i] - duration[i] - firstLapOffset with
\* firstLapOffset = endTime[0] - duration[0]; for the rows (10,10), (25,12),
\* (40,9) and no explicit index it returns lap 2, start 31 and end 40.
C1_StartFromFirstLapOffset ==
    (lapSelection.ok /\ AllLapsValid) =>
      LET idx == lapSelection.lapIndex
          firstLapOffset == EndOf(0).v - DurOf(0).v
      IN /\ lapSelection.lapStartTime = Fin(EndOf(idx).v - DurOf(idx).v - firstLapOffset)
         /\ (lapTimeRows = ScenarioA.lt /\ targetLapIndex = Null) =>
              /\ lapSelection.lapIndex = 2
              /\ lapSelection.lapStartTime = Sec(31)
              /\ lapSelection.lapEndTime = Sec(40)

\* C2: when lap 0 is selected and has a positive duration d, selectLap returns
\* lapStartTime = 0 and lapEndTime = d, and computeIndexRanges gives every
\* channel the range [0, floor(d * hz)) whenever floor(d * hz) >= 1.
C2_FirstLapWindowCoversLap ==
    (lapSelection.ok /\ lapSelection.lapIndex = 0 /\ ValidLap(0) /\ IsFinite(EndOf(0))
       /\ targetLapIndex \in {Null, Fin(0)}) =>
      /\ lapSelection.lapStartTime = Fin(0)
      /\ lapSelection.lapEndTime = DurOf(0)
      /\ pc = "ranged" =>
           \A c \in Channels :
             LET n == (DurOf(0).v * hz[c]) \div TicksPerSec IN
             n >= 1 => ranges[c] = [start |-> Fin(0), end |-> Fin(n)]

\* C3: with no explicit index selectLap picks the lap of smallest duration
\* among the laps of finite, strictly positive duration, the lowest index among
\* ties; a lap of non-positive or non-finite duration is never picked.
C3_FastestValidLapLowestIndex ==
    (SelectLapRan /\ targetLapIndex = Null) =>
      /\ (\E j \in 0..(LapCount - 1) : ValidLap(j)) => lapSelection.ok
      /\ lapSelection.ok =>
           LET idx == lapSelection.lapIndex IN
           /\ idx \in 0..(LapCount - 1)
           /\ ValidLap(idx)
           /\ \A j \in 0..(LapCount - 1) :
                ValidLap(j) =>
                  /\ DurOf(idx).v <= DurOf(j).v
                  /\ DurOf(j).v = DurOf(idx).v => idx <= j

\* C3 witness: two valid laps tie for the minimum and the scan returned the first
C3_Witness ==
    /\ SelectLapRan /\ targetLapIndex = Null /\ lapSelection.ok
    /\ LapCount = 2 /\ ValidLap(0) /\ ValidLap(1)
    /\ DurOf(0) = DurOf(1)
    /\ lapSelection.lapIndex = 0

\* the caller gave an explicit index within the table
ExplicitInBounds ==
    /\ IsFinite(targetLapIndex)
    /\ targetLapIndex.v >= 0
    /\ targetLapIndex.v < LapCount

\* the caller gave an explicit index outside the table
ExplicitOutOfBounds ==
    /\ IsFinite(targetLapIndex)
    /\ (targetLapIndex.v < 0 \/ targetLapIndex.v >= LapCount)

\* C4: an explicit index with 0 <= index < rowCount is returned as given, with
\* no validity filter, also when that lap's duration is not positive and
\* whichever lap is the fastest.
C4_ExplicitIndexUsedUnfiltered ==
    (SelectLapRan /\ ExplicitInBounds) =>
      /\ lapSelection.ok
      /\ lapSelection.lapIndex = targetLapIndex.v
      /\ lapSelection.lapDuration = DurOf(targetLapIndex.v)

\* C4 witness: lap 1 is asked for, its duration is 0, and lap 0 is the fastest
C4_Witness ==
    /\ SelectLapRan /\ targetLapIndex = Fin(1) /\ LapCount = 2
    /\ ValidLap(0) /\ DurOf(1) = Fin(0)
    /\ lapSelection.ok /\ lapSelection.lapIndex = 1

\* C5: an explicit index out of bounds makes lap resolution fail with an error;
\* no lap result is produced and no other lap is substituted.
C5_OutOfBoundsIndexFails ==
    (SelectLapRan /\ ExplicitOutOfBounds) => (~lapSelection.ok /\ pc = "failed")

\* C6: with no explicit index and no lap of finite, strictly positive duration
\* selectLap throws 'No valid lap found.' and returns no lap record.
C6_NoValidLapFails ==
    (SelectLapRan /\ targetLapIndex = Null
       /\ \A j \in 0..(LapCount - 1) : ~ValidLap(j)) =>
      /\ ~lapSelection.ok
      /\ lapSelection.error = "No valid lap found."
      /\ lapSelection = Thrown("No valid lap found.")
      /\ pc = "failed"

\* C6 witness: a table whose laps have durations 0 and +Infinity, no index given
C6_Witness ==
    /\ pc = "failed" /\ targetLapIndex = Null /\ LapCount = 2
    /\ DurOf(0) = Fin(0) /\ DurOf(1) = PInf
    /\ lapSelection.error = "No valid lap found."

\* the sectors of a lap record against the raw rows of lap idx
SectorsMatchRows(sectors, duration, idx) ==
    /\ sectors.s1 = s1Rows[idx + 1][2]
    /\ sectors.s2 = NumSub(s2Rows[idx + 1][2], sectors.s1)
    /\ sectors.s3 = NumSub(NumSub(duration, sectors.s1), sectors.s2)
    /\ NumAdd(NumAdd(sectors.s1, sectors.s2), sectors.s3) = duration
    /\ duration = DurOf(idx)

\* C7: in every lap record of selectLap and of buildLapSummaries,
\* s1 = cumulativeS1[i], s2 = cumulativeS2[i] - s1, s3 = duration[i] - s1 - s2,
\* so s1 + s2 + s3 = duration; cumulative 20 and 35 with duration 50 give
\* 20, 15, 15.
C7_SectorSplits ==
    /\ lapSelection.ok =>
         /\ SectorsMatchRows(lapSelection.sectors, lapSelection.lapDuration,
                             lapSelection.lapIndex)
         /\ (lapTimeRows = ScenarioC.lt /\ lapSelection.lapIndex = 0) =>
              lapSelection.sectors = [s1 |-> Sec(20), s2 |-> Sec(15), s3 |-> Sec(15)]
    /\ \A n \in 1..Len(lapsResult.laps) :
         LET lap == lapsResult.laps[n] IN
         /\ SectorsMatchRows(lap.sectors, lap.lapTime, lap.lapIndex)
         /\ (lapTimeRows = ScenarioC.lt /\ lap.lapIndex = 0) =>
              lap.sectors = [s1 |-> Sec(20), s2 |-> Sec(15), s3 |-> Sec(15)]

\* C7 witness: lap 0 of the 20/35/50 session was selected
C7_Witness ==
    /\ lapSelection.ok /\ lapTimeRows = ScenarioC.lt /\ lapSelection.lapIndex = 0
    /\ lapSelection.sectors.s2 = Sec(15)

(***************************************************************************)
(* The lap windows the index mapper can be handed: the window of lap 1 of  *)
(* a two-lap session whose first row is (0, 0), for every start and        *)
(* duration of lap 1 within MaxTicks ticks, under each rate table.         *)
(***************************************************************************)
MaxTicks == 6

\* a rate table with rates that do not divide one another
SmallHz == [speed |-> 4, dist |-> 1, input |-> 2, gps |-> 1, rpm |-> 4, steering |-> 3]

HzTables == {RouteHz, SmallHz}

WindowSession(start, duration) ==
    [lt |-> <<(<<Fin(0), Fin(0)>>), (<<Fin(start + duration), Fin(duration)>>)>>,
     c1 |-> <<Fin(0), Fin(0)>>,
     c2 |-> <<Fin(0), Fin(0)>>]

InitRanges ==
    /\ \E start \in (0 - MaxTicks)..MaxTicks, duration \in (0 - MaxTicks)..MaxTicks :
         LET s == WindowSession(start, duration) IN
         /\ lapTimeRows = s.lt
         /\ s1Rows = SectorRows(s.c1)
         /\ s2Rows = SectorRows(s.c2)
    /\ targetLapIndex = Fin(1)
    /\ lapSelection = NoSelection
    /\ lapsResult = NoLapsResult
    /\ hz \in HzTables
    /\ ranges = NoRanges
    /\ slices = NoSlices
    /\ sampleStep = RouteSampleStep
    /\ i = 0
    /\ data = <<>>
    /\ pc = "loaded"
    /\ response = NoResponse
    /\ now = 0
    /\ disk = {}
    /\ reqs = NoRequests
    /\ page = NoPage

SpecRanges == InitRanges /\ [][NextLap]_vars

(***************************************************************************)
(* The slices the aligner can be handed.  The reading at offset n of a     *)
(* channel's slice is a number naming the channel and the offset, so that  *)
(* a reading tells where it came from.                                     *)
(***************************************************************************)
Reading(ch, n) == Fin(ch * 10000 + n + 1)

\* the slice of channel number ch holding len readings: rows of one column
SliceOf(ch, len) == [n \in 1..len |-> <<Reading(ch, n - 1)>>]

SlicesOf(lens) ==
    [speedRows |-> SliceOf(1, lens[1]), distRows |-> SliceOf(2, lens[2]),
     throttleRows |-> SliceOf(3, lens[3]), brakeRows |-> SliceOf(4, lens[4]),
     latRows |-> SliceOf(5, lens[5]), lonRows |-> SliceOf(6, lens[6]),
     rpmRows |-> SliceOf(7, lens[7]), steeringRows |-> SliceOf(8, lens[8])]

\* a 12 s lap: speed 1200 samples at 100 Hz, distance 120 at 10 Hz
ScenarioBLens == <<1200, 120, 600, 600, 120, 120, 1200, 1200>>

\* lap 1 lasts 12 s and starts 10 s into the session
ScenarioB ==
    [lt |-> <<(<<Sec(10), Sec(10)>>), (<<Sec(32), Sec(12)>>)>>,
     c1 |-> <<Sec(3), Sec(4)>>,
     c2 |-> <<Sec(6), Sec(8)>>]

OtherLens == {0, 1, MaxLen}

SmallLens ==
    {<<n>> \o rest : n \in 0..MaxLen, rest \in [1..7 -> OtherLens]}

Strides == (1..MaxStride) \cup {RouteSampleStep}

InitSeries ==
    /\ lapTimeRows = ScenarioB.lt
    /\ s1Rows = SectorRows(ScenarioB.c1)
    /\ s2Rows = SectorRows(ScenarioB.c2)
    /\ targetLapIndex = Fin(1)
    /\ lapSelection = selectLap(lapTimeRows, s1Rows, s2Rows, targetLapIndex)
    /\ lapsResult = NoLapsResult
    /\ \/ /\ hz \in HzTables
          /\ sampleStep \in Strides
          /\ \E lens \in SmallLens : slices = SlicesOf(lens)
       \/ /\ hz = RouteHz
          /\ sampleStep = RouteSampleStep
          /\ slices = SlicesOf(ScenarioBLens)
    /\ ranges = computeIndexRanges(lapSelection.lapStartTime,
                                   lapSelection.lapEndTime, hz)
    /\ i = 0
    /\ data = <<>>
    /\ pc = "building"
    /\ response = NoResponse
    /\ now = 0
    /\ disk = {}
    /\ reqs = NoRequests
    /\ page = NoPage

\* one iteration of the for loop of buildTelemetrySeries
SeriesStep ==
    /\ pc = "building"
    /\ LoopContinues(i, Len(slices.speedRows))
    /\ data' = Append(data, TelemetryPoint(lapSelection.lapIndex, slices, hz, i))
    /\ i' = NextIndex(i, sampleStep)
    /\ UNCHANGED <<lapTimeRows, s1Rows, s2Rows, targetLapIndex, lapSelection,
                   lapsResult, hz, ranges, slices, sampleStep, pc>>
    /\ UNCHANGED <<response, now, disk, reqs>>
    /\ UNCHANGED page

\* the loop test fails: buildTelemetrySeries returns data
SeriesReturn ==
    /\ pc = "building"
    /\ ~LoopContinues(i, Len(slices.speedRows))
    /\ pc' = "built"
    /\ UNCHANGED <<lapTimeRows, s1Rows, s2Rows, targetLapIndex, lapSelection,
                   lapsResult, hz, ranges, slices, sampleStep, i, data>>
    /\ UNCHANGED <<response, now, disk, reqs>>
    /\ UNCHANGED page

NextSeries == SeriesStep \/ SeriesReturn

SpecSeries == InitSeries /\ [][NextSeries]_vars

(***************************************************************************)
(* Properties of the index mapper (SpecRanges).                            *)
(***************************************************************************)
IntMax(a, b) == IF a >= b THEN a ELSE b

\* C8: for every channel and every startTime, endTime and hz > 0,
\* computeIndexRanges returns start = max(0, floor(startTime * hz)) and
\* end = max(start + 1, floor(endTime * hz)); start >= 0 and end > start, also
\* when endTime <= startTime or startTime is negative.
C8_RangeNeverEmpty ==
    pc = "ranged" =>
      \A c \in Channels :
        LET startTime == lapSelection.lapStartTime.v
            endTime == lapSelection.lapEndTime.v
            start == IntMax(0, (startTime * hz[c]) \div TicksPerSec)
            end == IntMax(start + 1, (endTime * hz[c]) \div TicksPerSec)
        IN /\ ranges[c] = [start |-> Fin(start), end |-> Fin(end)]
           /\ ranges[c].start.v >= 0
           /\ ranges[c].end.v > ranges[c].start.v

\* C8 witness: a window that starts before 0 and ends before it starts
C8_Witness ==
    /\ pc = "ranged"
    /\ lapSelection.lapStartTime = Fin(-2)
    /\ lapSelection.lapEndTime = Fin(-3)
    /\ ranges.speed = [start |-> Fin(0), end |-> Fin(1)]

(***************************************************************************)
(* Properties of the aligner (SpecSeries).                                 *)
(***************************************************************************)
IntMin(a, b) == IF a <= b THEN a ELSE b

\* clamp(round((idx / refRateHz) * hzC), 0, lenC - 1)
LocalIndex(idx, hzC, lenC) ==
    IntMax(0, IntMin(lenC - 1, (2 * idx * hzC + hz.speed) \div (2 * hz.speed)))

\* the reading of a non-empty slice at the local index of reference index idx
AlignedReading(rows, idx, hzC) == rows[LocalIndex(idx, hzC, Len(rows)) + 1][1]

\* C9: for every emitted reference sample i and every non-reference channel c
\* with rate hzC and a non-empty slice of length lenC, the point carries the
\* element of c's own slice at clamp(round((i / refRateHz) * hzC), 0, lenC - 1)
\* (the steering reading times 100); reference 100 Hz and distance 10 Hz put
\* distance index 50 at reference index 500.
C9_NearestNeighbourOwnSlice ==
    \A n \in 1..Len(data) :
      LET p == data[n] IN
      /\ Len(slices.distRows) > 0 =>
           p.distance = AlignedReading(slices.distRows, p.index, hz.dist)
      /\ Len(slices.throttleRows) > 0 =>
           p.throttle = AlignedReading(slices.throttleRows, p.index, hz.input)
      /\ Len(slices.brakeRows) > 0 =>
           p.brake = AlignedReading(slices.brakeRows, p.index, hz.input)
      /\ Len(slices.latRows) > 0 =>
           p.lat = AlignedReading(slices.latRows, p.index, hz.gps)
      /\ Len(slices.lonRows) > 0 =>
           p.lon = AlignedReading(slices.lonRows, p.index, hz.gps)
      /\ Len(slices.rpmRows) > 0 =>
           p.engineRpm = AlignedReading(slices.rpmRows, p.index, hz.rpm)
      /\ Len(slices.steeringRows) > 0 =>
           p.steeringAngle =
             NumTimes(AlignedReading(slices.steeringRows, p.index, hz.steering), 100)
      /\ (hz.speed = 100 /\ hz.dist = 10 /\ p.index = 500
            /\ Len(slices.distRows) = 120) =>
           p.distance = slices.distRows[50 + 1][1]

\* ceil(len / step) for len >= 0 and step > 0
CeilDiv(len, step) == (len + step - 1) \div step

\* C10: buildTelemetrySeries returns exactly ceil(refLength / stride) points for
\* every reference length >= 0 and positive integer stride: 120 points for
\* length 1200 and stride 10, refLength points for stride 1.
C10_OutputLength ==
    pc = "built" =>
      LET refLength == Len(slices.speedRows) IN
      /\ Len(data) = CeilDiv(refLength, sampleStep)
      /\ (refLength = 1200 /\ sampleStep = 10) => Len(data) = 120
      /\ sampleStep = 1 => Len(data) = refLength

\* C10 witness: the 1200-sample reference slice was strided by 10 into 120 points
C10_Witness ==
    /\ pc = "built"
    /\ Len(slices.speedRows) = 1200
    /\ sampleStep = 10
    /\ Len(data) = 120

\* the fully aligned sequence: buildTelemetrySeries with stride 1 on the same slices
FullSeries == buildTelemetrySeries(lapSelection.lapIndex, slices, hz, 1)

\* C11: downsampling is pure decimation: for every stride >= 1 and every k,
\* output point k of buildTelemetrySeries(stride) is field for field point
\* stride * k of the output of buildTelemetrySeries with stride 1.
C11_PureDecimation ==
    pc = "built" =>
      \A n \in 1..Len(data) :
        /\ sampleStep * (n - 1) + 1 <= Len(FullSeries)
        /\ data[n] = FullSeries[sampleStep * (n - 1) + 1]

\* C11 witness: a stride of 2 kept points 0 and 2 of a three-point sequence
C11_Witness ==
    /\ pc = "built"
    /\ sampleStep = 2
    /\ Len(slices.speedRows) = 3
    /\ Len(slices.distRows) = 3
    /\ Len(data) = 2
    /\ data[2].index = 2

(***************************************************************************)
(* The two route handlers from the form data to the response               *)
(* (SpecRequest): /api/telemetry and /api/laps on one uploaded file,       *)
(* whose tables may be empty.                                              *)
(***************************************************************************)
\* loadTimingTables: the message of the error it throws, "" when it returns
loadTimingTablesNoSector2Check(lt, r1, r2) ==
    IF Len(lt) = 0 THEN "Lap Time table is empty."
    ELSE IF Len(r1) = 0 THEN "Last Sector1 table is empty."
    ELSE ""

loadTimingTables(lt, r1, r2) ==
    IF Len(lt) = 0 THEN "Lap Time table is empty."
    ELSE IF Len(r1) = 0 THEN "Last Sector1 table is empty."
    ELSE IF Len(r2) = 0 THEN "Last Sector2 table is empty."
    ELSE ""

\* loadLapTables: the three reads come first, then the same three checks
loadLapTables(lt, r1, r2) ==
    IF Len(lt) = 0 THEN "Lap Time table is empty."
    ELSE IF Len(r1) = 0 THEN "Last Sector1 table is empty."
    ELSE IF Len(r2) = 0 THEN "Last Sector2 table is empty."
    ELSE ""

\* the two checks of the route on the loaded slices, ignoring the distance slice
EmptyChannelErrorSpeedOnly(sl) ==
    IF Len(sl.speedRows) = 0 THEN "Ground Speed channel is empty."
    ELSE ""

\* the two checks of the route on the loaded slices: the message thrown, or ""
EmptyChannelError(sl) ==
    IF Len(sl.speedRows) = 0 THEN "Ground Speed channel is empty."
    ELSE IF Len(sl.distRows) = 0 THEN "Lap Dist channel is empty."
    ELSE ""

\* the response of the catch block
ErrorResponse(msg) ==
    [status |-> 500, success |-> FALSE, error |-> msg, data |-> <<>>, laps |-> <<>>]

\* the response to a form without a file
MissingFileResponse ==
    [status |-> 400, success |-> FALSE, error |-> "Missing file", data |-> <<>>,
     laps |-> <<>>]

TelemetryResponse(points) ==
    [status |-> 200, success |-> TRUE, error |-> "", data |-> points, laps |-> <<>>]

LapsResponse(result) ==
    [status |-> 200, success |-> TRUE, error |-> "", data |-> <<>>,
     laps |-> result.laps]

\* a session whose every lap has a duration of 0
NoValidLapSession ==
    [lt |-> <<(<<Sec(10), Fin(0)>>)>>, c1 |-> <<Sec(3)>>, c2 |-> <<Sec(6)>>]

FullSessions == {ScenarioA, ScenarioB, ScenarioC, NoValidLapSession}

\* the tables of a file: those of a full session, any of the three possibly empty
RequestTables ==
    {[lt |-> IF "lt" \in gone THEN <<>> ELSE s.lt,
      c1 |-> IF "c1" \in gone THEN <<>> ELSE SectorRows(s.c1),
      c2 |-> IF "c2" \in gone THEN <<>> ELSE SectorRows(s.c2)] :
        s \in FullSessions, gone \in SUBSET {"lt", "c1", "c2"}}

\* slice lengths: speed long enough for three points at the route's stride
SpeedLens == {0, 1, 2 * RouteSampleStep + 1}

RequestLens ==
    {<<a, b>> \o rest : a \in SpeedLens, b \in OtherLens, rest \in [1..6 -> {0, MaxLen}]}

\* the rows LIMIT end - start OFFSET start can return for a range
FitsRange(len, range) ==
    /\ IsFinite(range.start)
    /\ IsFinite(range.end)
    /\ len <= range.end.v - range.start.v

InitRequest ==
    /\ \E t \in RequestTables :
         /\ lapTimeRows = t.lt
         /\ s1Rows = t.c1
         /\ s2Rows = t.c2
    /\ targetLapIndex \in {Null, Fin(1)}
    /\ lapSelection = NoSelection
    /\ lapsResult = NoLapsResult
    /\ hz = RouteHz
    /\ ranges = NoRanges
    /\ slices = NoSlices
    /\ sampleStep = RouteSampleStep
    /\ i = 0
    /\ data = <<>>
    /\ pc \in {"telemetry", "laps"}
    /\ response = NoResponse
    /\ now = 0
    /\ disk = {}
    /\ reqs = NoRequests
    /\ page = NoPage

\* both routes: the form data, the temp file and the connection
ReceiveForm ==
    /\ pc \in {"telemetry", "laps"}
    /\ \E hasFile \in BOOLEAN :
         IF hasFile
         THEN /\ pc' = IF pc = "telemetry" THEN "telemetryAttached" ELSE "lapsAttached"
              /\ UNCHANGED response
         ELSE /\ pc' = "responded"
              /\ response' = MissingFileResponse
    /\ UNCHANGED <<lapTimeRows, s1Rows, s2Rows, targetLapIndex, lapSelection,
                   lapsResult, hz, ranges, slices, sampleStep, i, data>>
    /\ UNCHANGED serverVars
    /\ UNCHANGED page

\* /api/telemetry: loadTimingTables, and the catch block if it throws
LoadTimingTables ==
    /\ pc = "telemetryAttached"
    /\ LET err == loadTimingTables(lapTimeRows, s1Rows, s2Rows)
       IN IF err = ""
          THEN pc' = "loaded" /\ UNCHANGED response
          ELSE pc' = "responded" /\ response' = ErrorResponse(err)
    /\ UNCHANGED <<lapTimeRows, s1Rows, s2Rows, targetLapIndex, lapSelection,
                   lapsResult, hz, ranges, slices, sampleStep, i, data>>
    /\ UNCHANGED serverVars
    /\ UNCHANGED page

\* /api/laps: loadLapTables, and the catch block if it throws
LoadLapTables ==
    /\ pc = "lapsAttached"
    /\ LET err == loadLapTables(lapTimeRows, s1Rows, s2Rows)
       IN IF err = ""
          THEN pc' = "lapsLoaded" /\ UNCHANGED response
          ELSE pc' = "responded" /\ response' = ErrorResponse(err)
    /\ UNCHANGED <<lapTimeRows, s1Rows, s2Rows, targetLapIndex, lapSelection,
                   lapsResult, hz, ranges, slices, sampleStep, i, data>>
    /\ UNCHANGED serverVars
    /\ UNCHANGED page

\* /api/laps: buildLapSummaries and the response
RespondLaps ==
    /\ pc = "lapsLoaded"
    /\ lapsResult' = buildLapSummaries(lapTimeRows, s1Rows, s2Rows)
    /\ response' = LapsResponse(lapsResult')
    /\ pc' = "responded"
    /\ UNCHANGED <<lapTimeRows, s1Rows, s2Rows, targetLapIndex, lapSelection, hz,
                   ranges, slices, sampleStep, i, data>>
    /\ UNCHANGED serverVars
    /\ UNCHANGED page

\* /api/telemetry: the catch block after selectLap threw
RespondSelectError ==
    /\ pc = "failed"
    /\ response' = ErrorResponse(lapSelection.error)
    /\ pc' = "responded"
    /\ UNCHANGED <<lapTimeRows, s1Rows, s2Rows, targetLapIndex, lapSelection,
                   lapsResult, hz, ranges, slices, sampleStep, i, data>>
    /\ UNCHANGED serverVars
    /\ UNCHANGED page

\* /api/telemetry: loadTelemetrySlices, each slice at most as long as its range
LoadTelemetrySlices ==
    /\ pc = "ranged"
    /\ \E lens \in RequestLens :
         /\ FitsRange(lens[1], ranges.speed)
         /\ FitsRange(lens[2], ranges.dist)
         /\ FitsRange(lens[3], ranges.input)
         /\ FitsRange(lens[4], ranges.input)
         /\ FitsRange(lens[5], ranges.gps)
         /\ FitsRange(lens[6], ranges.gps)
         /\ FitsRange(lens[7], ranges.rpm)
         /\ FitsRange(lens[8], ranges.steering)
         /\ slices' = SlicesOf(lens)
    /\ pc' = "sliced"
    /\ UNCHANGED <<lapTimeRows, s1Rows, s2Rows, targetLapIndex, lapSelection,
                   lapsResult, hz, ranges, sampleStep, i, data, response>>
    /\ UNCHANGED serverVars
    /\ UNCHANGED page

\* /api/telemetry: an empty Ground Speed or Lap Dist slice throws
RejectEmptySlices ==
    /\ pc = "sliced"
    /\ EmptyChannelError(slices) # ""
    /\ response' = ErrorResponse(EmptyChannelError(slices))
    /\ pc' = "responded"
    /\ UNCHANGED <<lapTimeRows, s1Rows, s2Rows, targetLapIndex, lapSelection,
                   lapsResult, hz, ranges, slices, sampleStep, i, data>>
    /\ UNCHANGED serverVars
    /\ UNCHANGED page

\* /api/telemetry: buildTelemetrySeries and the response
BuildSeries ==
    /\ pc = "sliced"
    /\ EmptyChannelError(slices) = ""
    /\ data' = buildTelemetrySeries(lapSelection.lapIndex, slices, hz, sampleStep)
    /\ i' = Len(slices.speedRows)
    /\ response' = TelemetryResponse(data')
    /\ pc' = "responded"
    /\ UNCHANGED <<lapTimeRows, s1Rows, s2Rows, targetLapIndex, lapSelection,
                   lapsResult, hz, ranges, slices, sampleStep>>
    /\ UNCHANGED serverVars
    /\ UNCHANGED page

NextRequest ==
    \/ ReceiveForm
    \/ LoadTimingTables
    \/ LoadLapTables
    \/ RespondLaps
    \/ SelectLap
    \/ RespondSelectError
    \/ ComputeIndexRanges
    \/ LoadTelemetrySlices
    \/ RejectEmptySlices
    \/ BuildSeries

SpecRequest == InitRequest /\ [][NextRequest]_vars

\* loadTelemetrySlices has returned
SlicesLoaded == ranges # NoRanges /\ pc \in {"sliced", "responded"}

\* C12: when the Ground Speed or the Lap Dist slice comes back empty, the
\* telemetry request fails with an error and an empty data list;
\* buildTelemetrySeries never answers for an empty mandatory slice.
C12_EmptyMandatorySliceFails ==
    (SlicesLoaded /\ (Len(slices.speedRows) = 0 \/ Len(slices.distRows) = 0)) =>
      /\ data = <<>>
      /\ pc = "responded" =>
           /\ ~response.success
           /\ response.status = 500
           /\ response.data = <<>>
           /\ response.error = IF Len(slices.speedRows) = 0
                               THEN "Ground Speed channel is empty."
                               ELSE "Lap Dist channel is empty."

\* C12 witness: speed samples came back but no distance sample, and the
\* request was answered with the Lap Dist error
C12_Witness ==
    /\ pc = "responded"
    /\ ranges # NoRanges
    /\ Len(slices.speedRows) > RouteSampleStep
    /\ Len(slices.distRows) = 0
    /\ response.error = "Lap Dist channel is empty."
    /\ response.data = <<>>

\* C13: when the GPS latitude and longitude slices are both empty and the
\* speed and distance slices are not, the telemetry request succeeds and
\* every point of the response has lat = null and lon = null.
C13_EmptyGpsGivesNull ==
    (/\ SlicesLoaded
     /\ pc = "responded"
     /\ Len(slices.speedRows) > 0
     /\ Len(slices.distRows) > 0
     /\ Len(slices.latRows) = 0
     /\ Len(slices.lonRows) = 0) =>
      /\ response.success
      /\ response.status = 200
      /\ Len(response.data) > 0
      /\ \A n \in 1..Len(response.data) :
           response.data[n].lat = Null /\ response.data[n].lon = Null

\* C13 witness: three points answered for a file without GPS samples
C13_Witness ==
    /\ pc = "responded"
    /\ Len(slices.speedRows) > 2 * RouteSampleStep
    /\ Len(slices.distRows) > 0
    /\ Len(slices.latRows) = 0
    /\ Len(slices.lonRows) = 0
    /\ Len(response.data) = 3
    /\ response.data[3].lat = Null

\* the message for the first empty timing table, in the order of the checks
FirstEmptyTableMessage ==
    IF Len(lapTimeRows) = 0 THEN "Lap Time table is empty."
    ELSE IF Len(s1Rows) = 0 THEN "Last Sector1 table is empty."
    ELSE "Last Sector2 table is empty."

\* C14: when any of the three timing tables is empty, loading fails with an
\* error before any lap is resolved or summarised, on the /api/laps path
\* (loadLapTables) and on the /api/telemetry path (loadTimingTables).
C14_EmptyTimingTableFails ==
    (Len(lapTimeRows) = 0 \/ Len(s1Rows) = 0 \/ Len(s2Rows) = 0) =>
      /\ pc \in {"telemetry", "laps", "telemetryAttached", "lapsAttached", "responded"}
      /\ lapSelection = NoSelection
      /\ lapsResult = NoLapsResult
      /\ pc = "responded" =>
           /\ ~response.success
           /\ response.data = <<>>
           /\ response.laps = <<>>
           /\ response.status = 500 => response.error = FirstEmptyTableMessage

\* C14 witness: only the Last Sector2 table is empty and the request was
\* answered with that table's error
C14_Witness ==
    /\ pc = "responded"
    /\ Len(lapTimeRows) > 0
    /\ Len(s1Rows) > 0
    /\ Len(s2Rows) = 0
    /\ response.status = 500
    /\ response.error = "Last Sector2 table is empty."

\* C15: when the timing row of the selected lap, or row 0 used for the
\* offset, holds a non-finite end time or duration, selectLap fails with an
\* error: it never returns a lap whose start, end, duration or sectors are
\* not finite.
C15_NonFiniteTimingRowFails ==
    (SelectLapRan /\ lapSelection.ok) =>
      /\ IsFinite(EndOf(lapSelection.lapIndex))
      /\ IsFinite(DurOf(lapSelection.lapIndex))
      /\ IsFinite(EndOf(0))
      /\ IsFinite(lapSelection.lapStartTime)
      /\ IsFinite(lapSelection.lapEndTime)
      /\ IsFinite(lapSelection.lapDuration)
      /\ IsFinite(lapSelection.sectors.s3)

(***************************************************************************)
(* Concurrent requests and their temp files (SpecServer).  Each request    *)
(* runs the handler of either route: the form data, saveTempDuckDbFile,    *)
(* openReadOnlyConnection, the reads of the pipeline, the response, and    *)
(* closeConnectionAndCleanup in the finally block.  A path is named by the *)
(* millisecond in it.                                                      *)
(***************************************************************************)
MaxRequests == 2
MaxClock == 1

Requests == 1..MaxRequests

\* tempFile = null
NoFile == -1

\* connection = null
NoConnection == 0

\* the locals of a handler at its entry
NewRequest ==
    [pc |-> "form", tempFile |-> NoFile, connection |-> NoConnection,
     status |-> 0, cleanups |-> 0]

\* path.join(tempDir, `lmu_${Date.now()}.duckdb`)
TempPath(ms) == ms

\* fs.writeFile(path, buffer) by request r: the file holds r's bytes
WriteFile(files, path, r) == {f \in files : f[1] # path} \cup {<<path, r>>}

\* fs.unlink(path), errors ignored
Unlink(files, path) == {f \in files : f[1] # path}

\* whose bytes the file at path holds; NoConnection when there is no file
WriterOf(files, path) ==
    IF \E f \in files : f[1] = path
    THEN (CHOOSE f \in files : f[1] = path)[2]
    ELSE NoConnection

InitServer ==
    /\ lapTimeRows = <<>>
    /\ s1Rows = <<>>
    /\ s2Rows = <<>>
    /\ targetLapIndex = Null
    /\ lapSelection = NoSelection
    /\ lapsResult = NoLapsResult
    /\ hz = RouteHz
    /\ ranges = NoRanges
    /\ slices = NoSlices
    /\ sampleStep = RouteSampleStep
    /\ i = 0
    /\ data = <<>>
    /\ pc = "serving"
    /\ response = NoResponse
    /\ now = 0
    /\ disk = {}
    /\ reqs = [r \in Requests |-> NewRequest]
    /\ page = NoPage

\* the clock advances by a millisecond
Tick ==
    /\ now < MaxClock
    /\ now' = now + 1
    /\ UNCHANGED <<disk, reqs>>
    /\ UNCHANGED pipelineVars
    /\ UNCHANGED page

\* formData(): a form without a file is answered 400 from inside the try block
ReadForm(r) ==
    /\ reqs[r].pc = "form"
    /\ \E hasFile \in BOOLEAN :
         reqs' = [reqs EXCEPT ![r] =
                    IF hasFile
                    THEN [@ EXCEPT !.pc = "save"]
                    ELSE [@ EXCEPT !.pc = "finally", !.status = 400]]
    /\ UNCHANGED <<now, disk>>
    /\ UNCHANGED pipelineVars
    /\ UNCHANGED page

\* tempFile = await saveTempDuckDbFile(file): the write succeeds
SaveTempFile(r) ==
    /\ reqs[r].pc = "save"
    /\ disk' = WriteFile(disk, TempPath(now), r)
    /\ reqs' = [reqs EXCEPT ![r] = [@ EXCEPT !.pc = "open", !.tempFile = TempPath(now)]]
    /\ UNCHANGED now
    /\ UNCHANGED pipelineVars
    /\ UNCHANGED page

\* saveTempDuckDbFile rejects: before the file is created, or after
\* fs.writeFile created it; tempFile is never assigned
SaveTempFileFails(r) ==
    /\ reqs[r].pc = "save"
    /\ \E created \in BOOLEAN :
         disk' = IF created THEN WriteFile(disk, TempPath(now), r) ELSE disk
    /\ reqs' = [reqs EXCEPT ![r] = [@ EXCEPT !.pc = "finally", !.status = 500]]
    /\ UNCHANGED now
    /\ UNCHANGED pipelineVars
    /\ UNCHANGED page

\* connection = await openReadOnlyConnection(tempFile): ATTACH of the file
\* now at that path, which throws when there is none
OpenConnection(r) ==
    /\ reqs[r].pc = "open"
    /\ LET writer == WriterOf(disk, reqs[r].tempFile)
       IN reqs' = [reqs EXCEPT ![r] =
                     IF writer = NoConnection
                     THEN [@ EXCEPT !.pc = "finally", !.status = 500]
                     ELSE [@ EXCEPT !.pc = "read", !.connection = writer]]
    /\ UNCHANGED <<now, disk>>
    /\ UNCHANGED pipelineVars
    /\ UNCHANGED page

\* the table and slice reads up to the response: 200, or 500 from the catch block
ReadTables(r) ==
    /\ reqs[r].pc = "read"
    /\ \E status \in {200, 500} :
         reqs' = [reqs EXCEPT ![r] = [@ EXCEPT !.pc = "finally", !.status = status]]
    /\ UNCHANGED <<now, disk>>
    /\ UNCHANGED pipelineVars
    /\ UNCHANGED page

\* finally: closeConnectionAndCleanup(connection, tempFile)
Cleanup(r) ==
    /\ reqs[r].pc = "finally"
    /\ disk' = IF reqs[r].tempFile # NoFile THEN Unlink(disk, reqs[r].tempFile) ELSE disk
    /\ reqs' = [reqs EXCEPT ![r] = [@ EXCEPT !.pc = "done", !.cleanups = @ + 1]]
    /\ UNCHANGED now
    /\ UNCHANGED pipelineVars
    /\ UNCHANGED page

NextServer ==
    \/ Tick
    \/ \E r \in Requests :
         \/ ReadForm(r)
         \/ SaveTempFile(r)
         \/ SaveTempFileFails(r)
         \/ OpenConnection(r)
         \/ ReadTables(r)
         \/ Cleanup(r)

SpecServer == InitServer /\ [][NextServer]_vars

\* request r holds a temp file it has not cleaned up yet
HoldsTempFile(r) == reqs[r].tempFile # NoFile /\ reqs[r].pc # "done"

\* C16: concurrent requests share no mutable state: the temp file path of
\* each request in flight differs from that of every other request in
\* flight, and a request reads the file it wrote itself, still on disk.
C16_TempFilesDistinct ==
    pc = "serving" =>
      \A r1 \in Requests :
        /\ \A r2 \in Requests \ {r1} :
             (HoldsTempFile(r1) /\ HoldsTempFile(r2)) =>
               reqs[r1].tempFile # reqs[r2].tempFile
        /\ reqs[r1].pc = "read" =>
             /\ reqs[r1].connection = r1
             /\ WriterOf(disk, reqs[r1].tempFile) = r1

\* C17: on every exit path of a request (success, an error at any step, the
\* early return for a missing file) cleanup runs exactly once, after the
\* response is decided and after the last read, and no temp file the
\* request created is left on disk once it has finished.
C17_CleanupRemovesEveryTempFile ==
    pc = "serving" =>
      \A r \in Requests :
        /\ reqs[r].pc = "done" =>
             /\ reqs[r].cleanups = 1
             /\ reqs[r].status # 0
             /\ \A f \in disk : f[2] # r
        /\ reqs[r].pc # "done" => reqs[r].cleanups = 0

(***************************************************************************)
(* Properties of the lap list (SpecLap).                                   *)
(***************************************************************************)
\* the three sector times of lap j, from the rows: the sector values of
\* SpecLap's tables are all finite
SectorTimes(j) ==
    [s1 |-> s1Rows[j + 1][2].v,
     s2 |-> s2Rows[j + 1][2].v - s1Rows[j + 1][2].v,
     s3 |-> DurOf(j).v - s2Rows[j + 1][2].v]

\* the strictly positive values of sector x over the valid laps
PositiveSectorTimes(x) ==
    {t \in {SectorTimes(j)[x] : j \in {k \in 0..(LapCount - 1) : ValidLap(k)}} : t > 0}

SetMin(S) == CHOOSE m \in S : \A t \in S : m <= t

\* C18: bestSectors of buildLapSummaries is, for each of s1, s2 and s3 on
\* its own, the minimum of that sector over the valid laps, counting only
\* strictly positive finite values; a non-positive value or a sector of an
\* invalid lap is never a best.
C18_BestSectorsMinOfPositive ==
    pc = "summarised" =>
      \A x \in {"s1", "s2", "s3"} :
        IF PositiveSectorTimes(x) = {}
        THEN lapsResult.bestSectors[x] = PInf
        ELSE lapsResult.bestSectors[x] = Fin(SetMin(PositiveSectorTimes(x)))

\* C18 witness: two valid laps, the third sector of one is not positive and
\* the best third sector is the positive one of the other
C18_Witness ==
    /\ pc = "summarised"
    /\ \E j, k \in 0..(LapCount - 1) :
         /\ ValidLap(j)
         /\ ValidLap(k)
         /\ SectorTimes(j).s3 <= 0
         /\ SectorTimes(k).s3 > 0
         /\ lapsResult.bestSectors.s3 = Fin(SectorTimes(k).s3)

\* some lap is valid
HasValidLap == \E j \in 0..(LapCount - 1) : ValidLap(j)

\* the fastest valid lap: the smallest duration, the lowest index among equals
FastestValidLap ==
    CHOOSE j \in 0..(LapCount - 1) :
      /\ ValidLap(j)
      /\ \A k \in 0..(LapCount - 1) :
           ValidLap(k) =>
             \/ DurOf(j).v < DurOf(k).v
             \/ DurOf(j).v = DurOf(k).v /\ j <= k

\* C19: for every timing table with a valid lap, selectLap called with the
\* explicit index of the fastest valid lap returns the same record
\* (lapIndex, start, end, duration, sectors) as selectLap called with no
\* explicit index.
C19_ExplicitFastestEqualsDefault ==
    (SelectLapRan /\ HasValidLap /\ targetLapIndex = Fin(FastestValidLap)) =>
      /\ lapSelection.ok
      /\ lapSelection = selectLap(lapTimeRows, s1Rows, s2Rows, Null)

\* C19 witness: the fastest of two valid laps is lap 1 and was asked for by index
C19_Witness ==
    /\ SelectLapRan
    /\ LapCount > 1
    /\ AllLapsValid
    /\ FastestValidLap = 1
    /\ targetLapIndex = Fin(1)
    /\ lapSelection.ok
    /\ lapSelection.lapIndex = 1

(***************************************************************************)
(* Order of the output (SpecSeries).                                       *)
(***************************************************************************)
\* C20: the output points are in the order of the reference channel (index
\* strictly increasing), and for each other channel the local index used is
\* non-decreasing from one output point to the next: alignment never goes
\* backwards in time within a channel.
C20_OutputOrdered ==
    \A n \in 1..(Len(data) - 1) :
      LET a == data[n].index
          b == data[n + 1].index
      IN /\ a < b
         /\ DistIdx(slices, hz, a) <= DistIdx(slices, hz, b)
         /\ InputIdx(slices, hz, a) <= InputIdx(slices, hz, b)
         /\ GpsIdx(slices, hz, a) <= GpsIdx(slices, hz, b)
         /\ Len(slices.distRows) > 0 => data[n].distance.v <= data[n + 1].distance.v
         /\ Len(slices.throttleRows) > 0 => data[n].throttle.v <= data[n + 1].throttle.v
         /\ Len(slices.latRows) > 0 => data[n].lat.v <= data[n + 1].lat.v

\* C20 witness: two consecutive points read two different distance samples
C20_Witness ==
    /\ Len(data) >= 2
    /\ Len(slices.distRows) > 1
    /\ DistIdx(slices, hz, data[1].index) < DistIdx(slices, hz, data[2].index)
    /\ data[1].distance.v < data[2].distance.v

(***************************************************************************)
(* Properties of the telemetry response (SpecRequest).                     *)
(***************************************************************************)
\* the /api/telemetry request was answered 200 with its points
TelemetrySucceeded == pc = "responded" /\ response.success /\ SlicesLoaded

\* the values of a slice
ValuesOf(rows) == {rows[n][1] : n \in 1..Len(rows)}

\* C21: on every successful telemetry result each point's speed is an
\* element of the fetched speed slice and its distance an element of the
\* fetched distance slice: the zero fallback for an index out of range is
\* never taken for these two channels.
C21_MandatoryValuesFromSlices ==
    TelemetrySucceeded =>
      \A n \in 1..Len(response.data) :
        /\ response.data[n].speed \in ValuesOf(slices.speedRows)
        /\ response.data[n].distance \in ValuesOf(slices.distRows)
        /\ response.data[n].speed = slices.speedRows[response.data[n].index + 1][1]

\* C21 witness: the third point asks for distance sample 2 of a slice of one
\* sample and gets that one sample
C21_Witness ==
    /\ TelemetrySucceeded
    /\ Len(response.data) = 3
    /\ Len(slices.distRows) = 1
    /\ response.data[3].distance = slices.distRows[1][1]
    /\ response.data[3].speed = slices.speedRows[2 * RouteSampleStep + 1][1]

\* C22: when the throttle, brake, engine RPM or steering slice is empty and
\* the speed and distance slices are not, the request succeeds with the full
\* number of points and that field is 0 at every point.
C22_EmptyOptionalChannelIsZero ==
    (/\ SlicesLoaded
     /\ pc = "responded"
     /\ Len(slices.speedRows) > 0
     /\ Len(slices.distRows) > 0) =>
      /\ response.success
      /\ Len(response.data) = CeilDiv(Len(slices.speedRows), sampleStep)
      /\ \A n \in 1..Len(response.data) :
           /\ Len(slices.throttleRows) = 0 => response.data[n].throttle = Fin(0)
           /\ Len(slices.brakeRows) = 0 => response.data[n].brake = Fin(0)
           /\ Len(slices.rpmRows) = 0 => response.data[n].engineRpm = Fin(0)
           /\ Len(slices.steeringRows) = 0 => response.data[n].steeringAngle = Fin(0)

\* C22 witness: three points answered, all four of these slices empty
C22_Witness ==
    /\ TelemetrySucceeded
    /\ Len(response.data) = 3
    /\ Len(slices.throttleRows) = 0
    /\ Len(slices.brakeRows) = 0
    /\ Len(slices.rpmRows) = 0
    /\ Len(slices.steeringRows) = 0
    /\ response.data[3].throttle = Fin(0)
    /\ response.data[3].steeringAngle = Fin(0)

(***************************************************************************)
(* Time of the attached samples (SpecSeries).                              *)
(***************************************************************************)
\* the local indices the loop body computes at reference index idx, each
\* with its channel's rate and the length that clamps it
LocalIndexes(idx) ==
    {[at |-> DistIdx(slices, hz, idx), rate |-> hz.dist, len |-> Len(slices.distRows)],
     [at |-> InputIdx(slices, hz, idx), rate |-> hz.input,
      len |-> Len(slices.throttleRows)],
     [at |-> GpsIdx(slices, hz, idx), rate |-> hz.gps, len |-> Len(slices.latRows)]}

\* C23 as stated: the sample attached to a point is the channel's most recent
\* one: localIndex / hzC <= i / refRateHz for every reference index i.
C23_MostRecentSample ==
    \A n \in 1..Len(data) :
      \A l \in LocalIndexes(data[n].index) :
        l.at * hz.speed <= data[n].index * l.rate

\* C23 amended: the sample attached to a point is the channel's nearest one:
\* localIndex / hzC is at most half a sample period of the channel later
\* than i / refRateHz, and less than half a period earlier unless the index
\* was clamped to the last row of the slice.
C23_NearestSample ==
    \A n \in 1..Len(data) :
      \A l \in LocalIndexes(data[n].index) :
        /\ 2 * l.at * hz.speed <= 2 * data[n].index * l.rate + hz.speed
        /\ l.at < l.len - 1 =>
             2 * l.at * hz.speed > 2 * data[n].index * l.rate - hz.speed

\* C23 witness: a point whose distance sample is later than the point itself
C23_Witness ==
    /\ Len(data) >= 1
    /\ \E n \in 1..Len(data) :
         /\ DistIdx(slices, hz, data[n].index) * hz.speed > data[n].index * hz.dist
         /\ data[n].distance = slices.distRows[DistIdx(slices, hz, data[n].index) + 1][1]

(***************************************************************************)
(* The lap list against lap selection (SpecLap).                           *)
(***************************************************************************)
\* C24: buildLapSummaries and selectLap agree on the fastest lap: for every
\* timing table bestLapIndex equals the lapIndex selectLap returns with no
\* explicit index, and bestLapIndex is -1 exactly when that call throws.
C24_BestLapIndexAgreesWithSelectLap ==
    /\ pc = "summarised" =>
         LET selected == selectLap(lapTimeRows, s1Rows, s2Rows, Null)
         IN /\ selected.ok => lapsResult.bestLapIndex = selected.lapIndex
            /\ lapsResult.bestLapIndex = -1 <=> ~selected.ok
    /\ (SelectLapRan /\ targetLapIndex = Null) =>
         LET best == buildLapSummaries(lapTimeRows, s1Rows, s2Rows).bestLapIndex
         IN /\ lapSelection.ok => lapSelection.lapIndex = best
            /\ best = -1 <=> ~lapSelection.ok

\* C24 witness: lap 0 has a duration that is not a number, lap 1 is valid
\* and is the best lap of the list
C24_Witness ==
    /\ pc = "summarised"
    /\ LapCount = 2
    /\ DurOf(0) = NaN
    /\ ValidLap(1)
    /\ lapsResult.bestLapIndex = 1

\* C25: bestLapIndex names the best lap inside the returned list by
\* position: whenever bestLapIndex >= 0, laps[bestLapIndex] exists and its
\* lapIndex is bestLapIndex, also when invalid laps were left out of the list.
C25_BestLapIndexIsListPosition ==
    (pc = "summarised" /\ lapsResult.bestLapIndex >= 0) =>
      /\ lapsResult.bestLapIndex < Len(lapsResult.laps)
      /\ lapsResult.laps[lapsResult.bestLapIndex + 1].lapIndex = lapsResult.bestLapIndex

\* C26: in every output point lat is null if and only if lon is null, for
\* every combination of latitude and longitude slice lengths; a missing GPS
\* reading is never reported as the number 0.
C26_LatLonNullTogether ==
    TelemetrySucceeded =>
      \A n \in 1..Len(response.data) :
        /\ response.data[n].lat = Null <=> response.data[n].lon = Null
        /\ response.data[n].lat # Fin(0)
        /\ response.data[n].lon # Fin(0)

(***************************************************************************)
(* Windows of adjacent laps (SpecAdjacent): sessions of three laps, each   *)
(* lap ending its duration, and possibly a gap, after the one before.      *)
(***************************************************************************)
\* the Lap Time rows of three laps: lap 0 ends at end0, laps 1 and 2 last d1
\* and d2 and start gap ticks after the end of the lap before
AdjacentSession(end0, d1, d2, gap) ==
    [lt |-> <<(<<Fin(end0), Fin(end0)>>),
              (<<Fin(end0 + gap + d1), Fin(d1)>>),
              (<<Fin(end0 + gap + d1 + gap + d2), Fin(d2)>>)>>,
     c1 |-> <<Fin(0), Fin(0), Fin(0)>>,
     c2 |-> <<Fin(0), Fin(0), Fin(0)>>]

InitAdjacent ==
    /\ \E end0 \in 1..MaxLen, d1 \in 0..MaxLen, d2 \in 0..MaxLen, gap \in 0..1 :
         LET s == AdjacentSession(end0, d1, d2, gap) IN
         /\ lapTimeRows = s.lt
         /\ s1Rows = SectorRows(s.c1)
         /\ s2Rows = SectorRows(s.c2)
    /\ targetLapIndex \in {Fin(1), Fin(2)}
    /\ lapSelection = NoSelection
    /\ lapsResult = NoLapsResult
    /\ hz \in HzTables
    /\ ranges = NoRanges
    /\ slices = NoSlices
    /\ sampleStep = RouteSampleStep
    /\ i = 0
    /\ data = <<>>
    /\ pc = "loaded"
    /\ response = NoResponse
    /\ now = 0
    /\ disk = {}
    /\ reqs = NoRequests
    /\ page = NoPage

SpecAdjacent == InitAdjacent /\ [][NextLap]_vars

\* the lap before the selected one, resolved by its explicit index
PreviousLap == selectLap(lapTimeRows, s1Rows, s2Rows, Fin(lapSelection.lapIndex - 1))

PreviousRanges ==
    computeIndexRanges(PreviousLap.lapStartTime, PreviousLap.lapEndTime, hz)

\* the raw rows of the selected lap and the one before abut:
\* endTime[i+1] - duration[i+1] = endTime[i]
RowsAbut ==
    /\ lapSelection.lapIndex >= 1
    /\ EndOf(lapSelection.lapIndex).v - DurOf(lapSelection.lapIndex).v
         = EndOf(lapSelection.lapIndex - 1).v

\* C27: adjacent laps get abutting windows: when the raw rows of laps i and
\* i+1 satisfy endTime[i+1] - duration[i+1] = endTime[i], selectLap gives
\* lapStartTime(i+1) = lapEndTime(i), and computeIndexRanges gives
\* range(i+1).start = range(i).end for each channel whenever
\* lapStartTime(i) >= 0 and floor(lapEndTime(i) * hz) > range(i).start.
C27_AdjacentWindowsAbut ==
    (pc = "ranged" /\ RowsAbut) =>
      /\ PreviousLap.ok
      /\ lapSelection.lapStartTime = PreviousLap.lapEndTime
      /\ \A c \in Channels :
           (/\ PreviousLap.lapStartTime.v >= 0
            /\ (PreviousLap.lapEndTime.v * hz[c]) \div TicksPerSec
                 > PreviousRanges[c].start.v) =>
             ranges[c].start = PreviousRanges[c].end

\* C27 witness: lap 2 follows lap 1 without a gap and its speed range
\* starts at a sample past 0, where the range of lap 1 ends
C27_Witness ==
    /\ pc = "ranged"
    /\ RowsAbut
    /\ lapSelection.lapIndex = 2
    /\ PreviousLap.lapStartTime.v >= 0
    /\ PreviousRanges.speed.end.v > PreviousRanges.speed.start.v + 1
    /\ ranges.speed.start = PreviousRanges.speed.end
    /\ ranges.dist.start = PreviousRanges.dist.end

(***************************************************************************)
(* Index, time and lap of the output points (SpecSeries).                  *)
(***************************************************************************)
\* C28: the point at position k (from 0) of buildTelemetrySeries has
\* index = k * stride, time = index / hz.speed and the selected lap's
\* lapIndex; a non-empty reference slice yields at least one point, and the
\* first point has index 0 and time 0.
C28_IndexTimeLapOfPoints ==
    /\ \A n \in 1..Len(data) :
         /\ data[n].index = (n - 1) * sampleStep
         /\ data[n].time.num * hz.speed = data[n].index * data[n].time.den
         /\ data[n].time.den > 0
         /\ data[n].lapIndex = lapSelection.lapIndex
    /\ (pc = "built" /\ Len(slices.speedRows) > 0) =>
         /\ Len(data) >= 1
         /\ data[1].index = 0
         /\ data[1].time.num = 0

\* C28 witness: the second point of a stride of 2 has index 2, at 2 / hz.speed
C28_Witness ==
    /\ pc = "built"
    /\ sampleStep = 2
    /\ Len(data) = 2
    /\ data[1].index = 0
    /\ data[2].index = 2
    /\ data[2].time = [num |-> 2, den |-> hz.speed]
    /\ data[2].lapIndex = 1

(***************************************************************************)
(* Termination of buildTelemetrySeries (SpecSeriesFair).  The loop is      *)
(* synchronous code: once called it runs its next pass or returns, which   *)
(* is weak fairness of its steps.                                          *)
(***************************************************************************)
SpecSeriesFair == InitSeries /\ [][NextSeries]_vars /\ WF_vars(NextSeries)

\* the loop has returned after exactly ceil(len / sampleStep) passes, one
\* point pushed per pass
ReturnedAfterCeilPasses ==
    /\ pc = "built"
    /\ Len(data) = CeilDiv(Len(slices.speedRows), sampleStep)
    /\ i >= Len(slices.speedRows)
    /\ i = Len(data) * sampleStep

\* C30: buildTelemetrySeries terminates for every reference slice length
\* and every stride that is a positive integer, after exactly
\* ceil(refLength / stride) loop iterations.
C30_LoopTerminates == <>ReturnedAfterCeilPasses

\* C30 witness: the loop returned after 2 passes over 3 samples with stride 2
C30_Witness ==
    /\ ReturnedAfterCeilPasses
    /\ Len(slices.speedRows) = 3
    /\ sampleStep = 2
    /\ i = 4

(***************************************************************************)
(* The page component Home (SpecPage): loadLaps, analyzeLap and            *)
(* toggleLapVisibility on the state laps, telemetryData, visibleLaps, and  *)
(* the fetches whose responses have not arrived yet.  telemetryData is the *)
(* set of its entries <<lapIndex, file the points came from>>.             *)
(***************************************************************************)
MaxFetches == 2

\* the session files the user can pick
Files == {1, 2}

\* the lapIndex of each entry of result.laps for a file
FileLaps(file) ==
    IF file = 1 THEN [n \in 1..MaxLaps |-> n - 1] ELSE <<MaxLaps - 1>>

\* prev.includes(lapIndex)
Includes(list, lapIndex) == \E n \in 1..Len(list) : list[n] = lapIndex

\* prev.filter((x) => x !== lapIndex)
RECURSIVE FilterOut(_, _)
FilterOut(list, lapIndex) ==
    IF list = <<>> THEN <<>>
    ELSE IF Head(list) = lapIndex THEN FilterOut(Tail(list), lapIndex)
    ELSE <<Head(list)>> \o FilterOut(Tail(list), lapIndex)

\* the updater of analyzeLap: prev.includes(lapIndex) ? prev : [...prev, lapIndex]
ShowLap(prev, lapIndex) ==
    IF Includes(prev, lapIndex) THEN prev ELSE Append(prev, lapIndex)

\* ToggleVisible appending whether or not the lap is in the list
ToggleVisibleAlwaysAppend(prev, lapIndex) == Append(prev, lapIndex)

\* the updater of toggleLapVisibility
ToggleVisible(prev, lapIndex) ==
    IF Includes(prev, lapIndex) THEN FilterOut(prev, lapIndex)
    ELSE Append(prev, lapIndex)

\* {...prev, [lapIndex]: result.data}
WithTelemetry(prev, lapIndex, file) ==
    {e \in prev : e[1] # lapIndex} \cup {<<lapIndex, file>>}

\* !!telemetryData[lapIndex]
IsAnalyzed(lapIndex) == \E e \in page.telemetryData : e[1] = lapIndex

\* the fetches without the one at position n
WithoutFetch(n) ==
    [k \in 1..(Len(page.fetches) - 1) |->
        IF k < n THEN page.fetches[k] ELSE page.fetches[k + 1]]

InitPage ==
    /\ lapTimeRows = <<>>
    /\ s1Rows = <<>>
    /\ s2Rows = <<>>
    /\ targetLapIndex = Null
    /\ lapSelection = NoSelection
    /\ lapsResult = NoLapsResult
    /\ hz = RouteHz
    /\ ranges = NoRanges
    /\ slices = NoSlices
    /\ sampleStep = RouteSampleStep
    /\ i = 0
    /\ data = <<>>
    /\ pc = "page"
    /\ response = NoResponse
    /\ now = 0
    /\ disk = {}
    /\ reqs = NoRequests
    /\ page = NoPage

\* loadLaps up to its fetch: the state is reset and /api/laps is called
LoadLaps(file) ==
    /\ Len(page.fetches) < MaxFetches
    /\ page' = [page EXCEPT !.currentFile = file,
                            !.loading = TRUE,
                            !.laps = <<>>,
                            !.telemetryData = {},
                            !.visibleLaps = <<>>,
                            !.fetches = Append(@, [kind |-> "laps", file |-> file,
                                                   lapIndex |-> -1]),
                            !.last = "loadLaps"]
    /\ UNCHANGED pipelineVars
    /\ UNCHANGED serverVars

\* loadLaps after its fetch: the lap list on success, nothing on an error
LoadLapsResponse(n) ==
    /\ n \in 1..Len(page.fetches)
    /\ page.fetches[n].kind = "laps"
    /\ \E success \in BOOLEAN :
         page' = [page EXCEPT !.laps = IF success THEN FileLaps(page.fetches[n].file)
                                       ELSE @,
                              !.loading = FALSE,
                              !.fetches = WithoutFetch(n),
                              !.last = "lapsResponse"]
    /\ UNCHANGED pipelineVars
    /\ UNCHANGED serverVars

\* analyzeLap up to its fetch, from the Analyze button of a lap's row
AnalyzeLap(lapIndex) ==
    /\ Includes(page.laps, lapIndex)
    /\ ~IsAnalyzed(lapIndex)
    /\ page.currentFile # 0
    /\ Len(page.fetches) < MaxFetches
    /\ page' = [page EXCEPT !.loading = TRUE,
                            !.fetches = Append(@, [kind |-> "telemetry",
                                                   file |-> page.currentFile,
                                                   lapIndex |-> lapIndex]),
                            !.last = "analyzeLap"]
    /\ UNCHANGED pipelineVars
    /\ UNCHANGED serverVars

\* analyzeLap after its fetch: the points are stored and the lap shown
AnalyzeLapResponse(n) ==
    /\ n \in 1..Len(page.fetches)
    /\ page.fetches[n].kind = "telemetry"
    /\ \E success \in BOOLEAN :
         page' = [page EXCEPT
                    !.telemetryData =
                       IF success
                       THEN WithTelemetry(@, page.fetches[n].lapIndex, page.fetches[n].file)
                       ELSE @,
                    !.visibleLaps =
                       IF success THEN ShowLap(@, page.fetches[n].lapIndex) ELSE @,
                    !.loading = FALSE,
                    !.fetches = WithoutFetch(n),
                    !.last = "telemetryResponse"]
    /\ UNCHANGED pipelineVars
    /\ UNCHANGED serverVars

\* toggleLapVisibility, from the checkbox of an analysed lap's row
ToggleLapVisibility(lapIndex) ==
    /\ Includes(page.laps, lapIndex)
    /\ IsAnalyzed(lapIndex)
    /\ page' = [page EXCEPT !.visibleLaps = ToggleVisible(@, lapIndex),
                            !.last = "toggle"]
    /\ UNCHANGED pipelineVars
    /\ UNCHANGED serverVars

NextPage ==
    \/ \E file \in Files : LoadLaps(file)
    \/ \E n \in 1..MaxFetches : LoadLapsResponse(n)
    \/ \E lapIndex \in 0..(MaxLaps - 1) : AnalyzeLap(lapIndex)
    \/ \E n \in 1..MaxFetches : AnalyzeLapResponse(n)
    \/ \E lapIndex \in 0..(MaxLaps - 1) : ToggleLapVisibility(lapIndex)

SpecPage == InitPage /\ [][NextPage]_vars

\* C29: after any sequence and interleaving of loadLaps, analyzeLap
\* responses and toggles of analysed laps, visibleLaps holds no lap index
\* twice and every lap index in it has an entry in telemetryData; loadLaps
\* empties both.
C29_VisibleLapsConsistent ==
    pc = "page" =>
      /\ \A a, b \in 1..Len(page.visibleLaps) :
           a # b => page.visibleLaps[a] # page.visibleLaps[b]
      /\ \A a \in 1..Len(page.visibleLaps) : IsAnalyzed(page.visibleLaps[a])
      /\ page.last = "loadLaps" =>
           page.visibleLaps = <<>> /\ page.telemetryData = {}

\* C29 witness: two laps analysed and shown, one toggled off and on again,
\* while a fetch is still under way
C29_Witness ==
    /\ pc = "page"
    /\ page.last = "toggle"
    /\ Len(page.visibleLaps) = 2
    /\ page.visibleLaps[1] > page.visibleLaps[2]
    /\ Len(page.fetches) > 0

====
